---------------------------- MODULE Spec2Model ----------------------------
(***************************************************************************)
(* A model of the session object SchedulerGUI of cpu-scheduler-gui.py: its *)
(* process list, the simulation handlers (run_simulation, start_step_mode, *)
(* step_simulation, test_custom_code, view_gantt) and the list handlers    *)
(* (add_process, add_random_processes, clear_all, load_config, on_drag,    *)
(* on_drop).  Process objects live in a heap and are named by reference,   *)
(* as in Python: self.processes[:] copies the list, never the objects.     *)
(*                                                                         *)
(* The modules cpu_scheduler_algorithms, ai_scheduler and the function     *)
(* calculate_metrics are imported by the source file and are not part of   *)
(* it; their definitions below follow the written specification.           *)
(***************************************************************************)
EXTENDS Integers, Sequences, FiniteSets, TLC

VARIABLES
    heap,               \* object id -> Process object (fields by name)
    processes,          \* self.processes: sequence of object ids
    drag_index,         \* self.drag_index: <<>> is None, <<i>> is index i
    listbox_size,       \* number of rows of self.process_listbox
    step_mode,          \* self.step_mode
    current_step,       \* self.current_step
    step_timeline,      \* self.step_timeline
    step_processes,     \* self.step_processes (a sequence of cells)
    has_step_processes, \* whether the attribute self.step_processes exists
    current_processes,  \* self.current_processes (a sequence of cells)
    current_algo_name,  \* self.current_algo_name
    timeline,           \* self.timeline
    num_cores,          \* self.num_cores
    status,             \* self.status_var
    module_globals,     \* names custom code has stored in globals()
    origin,             \* the handler whose run assigned each result field
    escaped,            \* exception class that left the last handler, or "none"
    last                \* what the last handler call read and did

vars == <<heap, processes, drag_index, listbox_size, step_mode, current_step,
          step_timeline, step_processes, has_step_processes, current_processes,
          current_algo_name, timeline, num_cores, status, module_globals,
          origin, escaped, last>>

listVars == <<heap, processes, drag_index, listbox_size>>
stepVars == <<step_mode, current_step, step_timeline, step_processes,
              has_step_processes>>
resultVars == <<current_processes, current_algo_name, timeline>>

-----------------------------------------------------------------------------
(* Bounds of the model.                                                    *)

\* Longest process list the list handlers build.
MaxProcs == 3

\* The longest run of clicks on one control that the history counts.
MaxClicks == 2

-----------------------------------------------------------------------------
(* Values.                                                                 *)

\* Python's None in an integer field of a Process (a derived field not set).
None == -1

Min(a, b) == IF a <= b THEN a ELSE b
Max(a, b) == IF a >= b THEN a ELSE b

Range(s) == {s[i] : i \in DOMAIN s}

\* s[:k] of Python, for 0 <= k.
Prefix(s, k) == SubSeq(s, 1, Min(k, Len(s)))

RECURSIVE SumSeq(_)
SumSeq(s) == IF s = <<>> THEN 0 ELSE Head(s) + SumSeq(Tail(s))

\* The texts an entry field is given, and int() of each: int() raises
\* ValueError on a text that is no integer literal.
IntTexts == {"-1", "0", "1", "2", "3"}
NonIntTexts == {"x"}
IsIntText(s) == s \in IntTexts
ParseInt(s) ==
    CASE s = "-1" -> -1
      [] s = "0" -> 0
      [] s = "1" -> 1
      [] s = "2" -> 2
      [] s = "3" -> 3

-----------------------------------------------------------------------------
(* Process (cpu_scheduler_algorithms.Process).                             *)

\* The constructor's admission check: InvalidInput unless it holds.
ProcessAcceptsAnything(arrival_time, burst_time) == TRUE

ProcessAccepts(arrival_time, burst_time) ==
    arrival_time >= 0 /\ burst_time > 0

\* A newly constructed Process: remaining_time mirrors burst_time, the other
\* derived fields are unset.
Process(pid, arrival_time, burst_time, priority) ==
    [pid |-> pid, arrival_time |-> arrival_time, burst_time |-> burst_time,
     priority |-> priority, remaining_time |-> burst_time,
     start_time |-> None, end_time |-> None,
     waiting_time |-> None, turnaround_time |-> None]

-----------------------------------------------------------------------------
(* The heap.  A cell of a result list is <<"ref", id>>, an object of the   *)
(* heap that the session's list may share, or <<"obj", p>>, an object that *)
(* only this result list refers to, held by value.                         *)

Ref(id) == <<"ref", id>>
Obj(p) == <<"obj", p>>
IsRef(c) == c[1] = "ref"
Deref(h, c) == IF IsRef(c) THEN h[c[2]] ELSE c[2]
RefsOf(cells) == {cells[i][2] : i \in {j \in DOMAIN cells : IsRef(cells[j])}}

\* The objects of the session's list, in order.
ObjectsOf(h, ids) == [i \in DOMAIN ids |-> h[ids[i]]]

\* The first id not in use.
NewId(h) == CHOOSE n \in 1..(Cardinality(DOMAIN h) + 1) : n \notin DOMAIN h

\* Objects nothing refers to are collected.
Collect(h, ids, cur, stp) ==
    [id \in (DOMAIN h) \cap (Range(ids) \cup RefsOf(cur) \cup RefsOf(stp))
        |-> h[id]]

\* The history record of a handler call: the settings it read ("" and
\* "none": not read), the identifier the selector returned, the scheduler
\* that ran to completion, the quanta a built-in scheduler was invoked with
\* (<<>>: it takes none, or none was invoked), whether custom code was
\* executed with the
\* session's processes in its namespace, the exception raised and whether it
\* was caught ("caught"), left the handler ("escaped") or none was raised;
\* clicks: for start_step_mode, how many times in a row the handler has now
\* completed on the same settings and list (counted up to MaxClicks).
LastOf(op) ==
    [op |-> op, algo |-> "none", quantum |-> "", cores |-> "",
     code |-> "none", predicted |-> "none", scheduler |-> "none",
     received |-> <<>>, exec_real |-> FALSE, fault |-> "none",
     outcome |-> "ok", clicks |-> 0]

-----------------------------------------------------------------------------
(* The list handlers.                                                      *)

\* update_process_listbox, lines 199-203.
update_process_listbox(procs) ==
    /\ listbox_size' = Len(procs)
    /\ status' = "Updated process list: " \o ToString(Len(procs)) \o " processes"

\* add_process's own check of the entered values, lines 211-212.
add_process_rejects(arrival, burst) == arrival < 0 \/ burst <= 0

\* add_process, lines 205-221, on the texts of the four entry fields.
add_process_appends_before_check(pid, arrivalText, burstText, priorityText) ==
    /\ Len(processes) < MaxProcs
    /\ UNCHANGED <<drag_index, stepVars, resultVars, num_cores,
                 module_globals, origin>>
    /\ escaped' = "none"
    /\ IF /\ IsIntText(arrivalText) /\ IsIntText(burstText)
          /\ IsIntText(priorityText)
       THEN LET id == NewId(heap)
                p == Process(pid, ParseInt(arrivalText), ParseInt(burstText),
                             ParseInt(priorityText))
                rejected == add_process_rejects(ParseInt(arrivalText),
                                                ParseInt(burstText))
            IN /\ heap' = [i \in DOMAIN heap \cup {id} |->
                              IF i = id THEN p ELSE heap[i]]
               /\ processes' = Append(processes, id)
               /\ listbox_size' = IF rejected THEN listbox_size
                                  ELSE Len(processes) + 1
               /\ status' = IF rejected THEN "Error adding process"
                            ELSE "Added process " \o pid
               /\ last' = IF rejected
                          THEN [LastOf("add_process") EXCEPT
                                  !.fault = "ValueError", !.outcome = "caught"]
                          ELSE LastOf("add_process")
       ELSE /\ UNCHANGED <<heap, processes, listbox_size>>
            /\ status' = "Error adding process"
            /\ last' = [LastOf("add_process") EXCEPT
                          !.fault = "ValueError", !.outcome = "caught"]

add_process(pid, arrivalText, burstText, priorityText) ==
    /\ Len(processes) < MaxProcs
    /\ UNCHANGED <<drag_index, stepVars, resultVars, num_cores,
                 module_globals, origin>>
    /\ escaped' = "none"
    /\ IF /\ IsIntText(arrivalText) /\ IsIntText(burstText)
          /\ IsIntText(priorityText)
          /\ ~add_process_rejects(ParseInt(arrivalText), ParseInt(burstText))
       THEN \* the check has passed, so has the constructor's
            LET id == NewId(heap)
                p == Process(pid, ParseInt(arrivalText), ParseInt(burstText),
                             ParseInt(priorityText))
            IN /\ heap' = [i \in DOMAIN heap \cup {id} |->
                              IF i = id THEN p ELSE heap[i]]
               /\ processes' = Append(processes, id)
               /\ listbox_size' = Len(processes) + 1
               /\ status' = "Added process " \o pid
               /\ last' = LastOf("add_process")
       ELSE \* ValueError, caught at line 219
            /\ UNCHANGED <<heap, processes, listbox_size>>
            /\ status' = "Error adding process"
            /\ last' = [LastOf("add_process") EXCEPT
                          !.fault = "ValueError", !.outcome = "caught"]

\* Process(...) for each record in turn, appended to the list; the first
\* record the constructor rejects ends the loop with InvalidInput.
RECURSIVE construct_all(_, _, _)
construct_all(h, ids, recs) ==
    IF recs = <<>> THEN [heap |-> h, ids |-> ids, raised |-> "none"]
    ELSE LET r == Head(recs) IN
         IF ~ProcessAccepts(r.arrival, r.burst)
         THEN [heap |-> h, ids |-> ids, raised |-> "InvalidInput"]
         ELSE LET id == NewId(h)
                  p == Process(r.pid, r.arrival, r.burst, r.priority)
              IN construct_all([i \in DOMAIN h \cup {id} |->
                                   IF i = id THEN p ELSE h[i]],
                               Append(ids, id), Tail(recs))

\* What random.randint may return at lines 224 and 227-229.
IsRandomDraw(draws) ==
    /\ Len(draws) \in 3..10
    /\ \A i \in DOMAIN draws :
          /\ draws[i].arrival \in 0..10
          /\ draws[i].burst \in 1..10
          /\ draws[i].priority \in 0..5

\* The records add_random_processes constructs, lines 225-230: the k-th is
\* named after the length of the list when it is appended.
random_records(n, draws) ==
    [k \in DOMAIN draws |->
        [pid |-> "P" \o ToString(n + k), arrival |-> draws[k].arrival,
         burst |-> draws[k].burst, priority |-> draws[k].priority]]

\* add_random_processes, lines 223-232.
add_random_processes(draws) ==
    /\ IsRandomDraw(draws)
    /\ Len(processes) + Len(draws) <= MaxProcs
    /\ LET r == construct_all(heap, processes,
                              random_records(Len(processes), draws))
       IN /\ heap' = r.heap
          /\ processes' = r.ids
          /\ IF r.raised = "none"
             THEN /\ listbox_size' = Len(r.ids)
                  /\ status' = "Added " \o ToString(Len(draws))
                                  \o " random processes"
                  /\ escaped' = "none"
                  /\ last' = LastOf("add_random_processes")
             ELSE /\ UNCHANGED <<listbox_size, status>>
                  /\ escaped' = r.raised
                  /\ last' = [LastOf("add_random_processes") EXCEPT
                                !.fault = r.raised, !.outcome = "escaped"]
    /\ UNCHANGED <<drag_index, stepVars, resultVars, num_cores,
                 module_globals, origin>>

\* clear_all, lines 234-237.
clear_all ==
    /\ processes' = <<>>
    /\ heap' = Collect(heap, <<>>, current_processes, step_processes)
    /\ listbox_size' = 0
    /\ status' = "Cleared all processes"
    /\ escaped' = "none"
    /\ last' = LastOf("clear_all")
    /\ UNCHANGED <<drag_index, stepVars, resultVars, num_cores,
                 module_globals, origin>>

\* load_config, lines 248-257, on the records of the chosen file; no file
\* chosen (chosen = FALSE) leaves the session as it is.
load_config(chosen, file, config) ==
    /\ Len(config) <= MaxProcs
    /\ UNCHANGED <<drag_index, stepVars, resultVars, num_cores,
                 module_globals, origin>>
    /\ IF ~chosen
       THEN /\ UNCHANGED <<heap, processes, listbox_size, status>>
            /\ escaped' = "none"
            /\ last' = LastOf("load_config")
       ELSE LET r == construct_all(
                        Collect(heap, <<>>, current_processes, step_processes),
                        <<>>, config)
            IN /\ heap' = r.heap
               /\ processes' = r.ids
               /\ IF r.raised = "none"
                  THEN /\ listbox_size' = Len(r.ids)
                       /\ status' = "Loaded configuration from " \o file
                       /\ escaped' = "none"
                       /\ last' = LastOf("load_config")
                  ELSE \* the exception leaves load_config at line 255
                       /\ UNCHANGED <<listbox_size, status>>
                       /\ escaped' = r.raised
                       /\ last' = [LastOf("load_config") EXCEPT
                                     !.fault = r.raised, !.outcome = "escaped"]

\* Listbox.nearest(event.y): the row nearest to y, -1 in an empty listbox.
nearest(row) == IF listbox_size = 0 THEN -1 ELSE Min(row, listbox_size - 1)

\* on_drag, lines 185-189.
on_drag(row) ==
    /\ drag_index' = <<nearest(row)>>
    /\ escaped' = "none"
    /\ last' = LastOf("on_drag")
    /\ UNCHANGED <<heap, processes, listbox_size, stepVars, resultVars,
                   num_cores, status, module_globals,
                   origin>>

\* list.pop(i) then list.insert(j, item) of lines 194-195, for a list s and
\* Python indices i >= 0 and j >= 0 (insert clamps j to the length).
pop_insert(s, i, j) ==
    LET item == s[i + 1]
        rest == SubSeq(s, 1, i) \o SubSeq(s, i + 2, Len(s))
        at == Min(j, Len(rest))
    IN SubSeq(rest, 1, at) \o <<item>> \o SubSeq(rest, at + 1, Len(rest))

\* on_drop, lines 191-197.  nearest gives -1 only in an empty listbox, and
\* then drag_index, set by on_drag on the same listbox or earlier, may name
\* a row that the list no longer has: pop raises IndexError.
on_drop(row) ==
    LET index == nearest(row) IN
    /\ UNCHANGED <<heap, stepVars, resultVars, num_cores,
                 module_globals, origin>>
    /\ IF drag_index # <<>> /\ index # drag_index[1]
       THEN LET d == drag_index[1] IN
            IF d >= Len(processes) \/ (d < 0 /\ processes = <<>>)
            THEN \* IndexError leaves on_drop before line 197
                 /\ UNCHANGED <<processes, listbox_size, status, drag_index>>
                 /\ escaped' = "IndexError"
                 /\ last' = [LastOf("on_drop") EXCEPT
                               !.fault = "IndexError", !.outcome = "escaped"]
            ELSE /\ processes' =
                        LET from == IF d < 0 THEN Len(processes) - 1 ELSE d
                            rest == Len(processes) - 1
                            to == IF index < 0 THEN Max(rest - 1, 0) ELSE index
                        IN pop_insert(processes, from, to)
                 /\ update_process_listbox(processes)
                 /\ drag_index' = <<>>
                 /\ escaped' = "none"
                 /\ last' = LastOf("on_drop")
       ELSE /\ UNCHANGED <<processes, listbox_size, status>>
            /\ drag_index' = <<>>
            /\ escaped' = "none"
            /\ last' = LastOf("on_drop")

-----------------------------------------------------------------------------
(* The single-core schedulers of cpu_scheduler_algorithms, on a sequence   *)
(* ps of Process records of one core.  Each returns the records with the   *)
(* derived fields set and the segments [pid, start, end] it dispatched.    *)

\* A process is completed once end_time is set.
finalize(p, start, end) ==
    [p EXCEPT !.start_time = start, !.end_time = end, !.remaining_time = 0,
              !.turnaround_time = end - p.arrival_time,
              !.waiting_time = end - p.arrival_time - p.burst_time]

segment(p, start, end) == [pid |-> p.pid, start |-> start, end |-> end]

\* The ranking key of each policy; ties go to the earlier arrival, then to
\* the earlier place in the input.
ranking_key(policy, p) ==
    CASE policy = "FCFS" -> p.arrival_time
      [] policy = "SJF-NP" -> p.burst_time
      [] policy = "SJF-P" -> p.remaining_time
      [] policy = "PR-NP" -> p.priority
      [] policy = "PR-P" -> p.priority

ranks_before(policy, ps, i, j) ==
    LET ki == ranking_key(policy, ps[i])
        kj == ranking_key(policy, ps[j])
    IN \/ ki < kj
       \/ ki = kj /\ ps[i].arrival_time < ps[j].arrival_time
       \/ ki = kj /\ ps[i].arrival_time = ps[j].arrival_time /\ i < j

best_of(policy, ps, S) ==
    CHOOSE i \in S : \A j \in S \ {i} : ranks_before(policy, ps, i, j)

earliest_arrival(ps, S) ==
    CHOOSE a \in {ps[i].arrival_time : i \in S} :
        \A i \in S : a <= ps[i].arrival_time

\* The indices of S by arrival, then by place in the input.
RECURSIVE by_arrival(_, _)
by_arrival(ps, S) ==
    IF S = {} THEN <<>>
    ELSE LET i == best_of("FCFS", ps, S)
         IN <<i>> \o by_arrival(ps, S \ {i})

\* FCFS, SJF non-preemptive, Priority non-preemptive: at each idle moment
\* the best ready process runs to completion.
RECURSIVE non_preemptive(_, _, _, _)
non_preemptive(policy, ps, t, tl) ==
    LET pending == {i \in DOMAIN ps : ps[i].end_time = None}
        ready == {i \in pending : ps[i].arrival_time <= t}
    IN IF pending = {} THEN [procs |-> ps, timeline |-> tl]
       ELSE IF ready = {}
       THEN non_preemptive(policy, ps, earliest_arrival(ps, pending), tl)
       ELSE LET i == best_of(policy, ps, ready)
                end == t + ps[i].burst_time
            IN non_preemptive(policy,
                              [ps EXCEPT ![i] = finalize(ps[i], t, end)],
                              end, Append(tl, segment(ps[i], t, end)))

\* SJF preemptive and Priority preemptive: the ready set is ranked at every
\* tick; the running process cur (0: none) keeps the core unless a ready
\* process ranks strictly before it by the key.
RECURSIVE preemptive(_, _, _, _, _)
preemptive(policy, ps, t, tl, cur) ==
    LET pending == {i \in DOMAIN ps : ps[i].end_time = None}
        ready == {i \in pending : ps[i].arrival_time <= t}
    IN IF pending = {} THEN [procs |-> ps, timeline |-> tl]
       ELSE IF ready = {}
       THEN preemptive(policy, ps, earliest_arrival(ps, pending), tl, 0)
       ELSE LET best == best_of(policy, ps, ready)
                i == IF cur \in ready
                        /\ ~(ranking_key(policy, ps[best])
                                < ranking_key(policy, ps[cur]))
                     THEN cur ELSE best
                p == ps[i]
                start == IF p.start_time = None THEN t ELSE p.start_time
                ran == [p EXCEPT !.start_time = start,
                                 !.remaining_time = p.remaining_time - 1]
                done == ran.remaining_time = 0
                tl2 == IF i = cur
                       THEN [tl EXCEPT ![Len(tl)].end = t + 1]
                       ELSE Append(tl, segment(p, t, t + 1))
            IN preemptive(policy,
                          [ps EXCEPT ![i] = IF done
                                            THEN finalize(ran, start, t + 1)
                                            ELSE ran],
                          t + 1, tl2, IF done THEN 0 ELSE i)

\* Round Robin and MLFQ share one loop over the feedback queues (Round Robin
\* has the single level): the head of the first non-empty queue runs for at
\* most its level's quantum; the processes that arrived during the slice
\* enter level 1 before the preempted process is put back, one level down
\* (the last level at most).
RECURSIVE feedback_queues_requeues_first(_, _, _, _, _, _)
feedback_queues_requeues_first(quanta, ps, t, tl, queues, admitted) ==
    LET pending == {i \in DOMAIN ps : ps[i].end_time = None}
        waiting == (DOMAIN ps) \ admitted
        arrived == {i \in waiting : ps[i].arrival_time <= t}
        levels == {l \in DOMAIN queues : queues[l] # <<>>}
    IN IF pending = {} THEN [procs |-> ps, timeline |-> tl]
       ELSE IF arrived # {}
       THEN feedback_queues_requeues_first(quanta, ps, t, tl,
                            [queues EXCEPT ![1] = @ \o by_arrival(ps, arrived)],
                            admitted \cup arrived)
       ELSE IF levels = {}
       THEN feedback_queues_requeues_first(
                quanta, ps, earliest_arrival(ps, waiting), tl,
                            queues, admitted)
       ELSE LET l == CHOOSE x \in levels : \A y \in levels : x <= y
                i == Head(queues[l])
                p == ps[i]
                d == Min(quanta[l], p.remaining_time)
                start == IF p.start_time = None THEN t ELSE p.start_time
                ran == [p EXCEPT !.start_time = start,
                                 !.remaining_time = p.remaining_time - d]
                done == ran.remaining_time = 0
                during == {j \in waiting : ps[j].arrival_time < t + d}
                popped == [queues EXCEPT ![l] = Tail(@)]
                entered == [popped EXCEPT ![1] = @ \o by_arrival(ps, during)]
                down == Min(l + 1, Len(queues))
            IN feedback_queues_requeues_first(
                   quanta,
                   [ps EXCEPT ![i] = IF done THEN finalize(ran, start, t + d)
                                     ELSE ran],
                   t + d, Append(tl, segment(p, t, t + d)),
                   IF done THEN entered
                   ELSE [entered EXCEPT ![down] = Append(@, i)],
                   admitted \cup during)

RECURSIVE feedback_queues(_, _, _, _, _, _)
feedback_queues(quanta, ps, t, tl, queues, admitted) ==
    LET pending == {i \in DOMAIN ps : ps[i].end_time = None}
        waiting == (DOMAIN ps) \ admitted
        arrived == {i \in waiting : ps[i].arrival_time <= t}
        levels == {l \in DOMAIN queues : queues[l] # <<>>}
    IN IF pending = {} THEN [procs |-> ps, timeline |-> tl]
       ELSE IF arrived # {}
       THEN feedback_queues(quanta, ps, t, tl,
                            [queues EXCEPT ![1] = @ \o by_arrival(ps, arrived)],
                            admitted \cup arrived)
       ELSE IF levels = {}
       THEN feedback_queues(quanta, ps, earliest_arrival(ps, waiting), tl,
                            queues, admitted)
       ELSE LET l == CHOOSE x \in levels : \A y \in levels : x <= y
                i == Head(queues[l])
                p == ps[i]
                d == Min(quanta[l], p.remaining_time)
                start == IF p.start_time = None THEN t ELSE p.start_time
                ran == [p EXCEPT !.start_time = start,
                                 !.remaining_time = p.remaining_time - d]
                done == ran.remaining_time = 0
                during == {j \in waiting : ps[j].arrival_time <= t + d}
                popped == [queues EXCEPT ![l] = Tail(@)]
                entered == [popped EXCEPT ![1] = @ \o by_arrival(ps, during)]
                down == Min(l + 1, Len(queues))
            IN feedback_queues(
                   quanta,
                   [ps EXCEPT ![i] = IF done THEN finalize(ran, start, t + d)
                                     ELSE ran],
                   t + d, Append(tl, segment(p, t, t + d)),
                   IF done THEN entered
                   ELSE [entered EXCEPT ![down] = Append(@, i)],
                   admitted \cup during)

\* The identifier of the algorithm the selector favours (spec 4.4): Round
\* Robin when the priorities are uniform, SJF preemptive when the burst
\* times are dispersed (variance above the threshold), Priority
\* non-preemptive otherwise.
BurstVarianceThreshold == 1

predict_best_algorithm(ps) ==
    LET n == Len(ps)
        bursts == [i \in DOMAIN ps |-> ps[i].burst_time]
        squares == [i \in DOMAIN ps |-> ps[i].burst_time * ps[i].burst_time]
        total == SumSeq(bursts)
    IN IF Cardinality({ps[i].priority : i \in DOMAIN ps}) <= 1 THEN "RR"
       ELSE IF n * SumSeq(squares) - total * total
                   > BurstVarianceThreshold * n * n
       THEN "SJF-P"
       ELSE "PR-NP"

\* The human-readable name each scheduler returns.
algorithm_name(fn) ==
    CASE fn = "fcfs_scheduler" -> "First Come First Serve"
      [] fn = "sjf_non_preemptive" -> "Shortest Job First (Non-Preemptive)"
      [] fn = "sjf_preemptive" -> "Shortest Job First (Preemptive)"
      [] fn = "rr_scheduler" -> "Round Robin"
      [] fn = "priority_non_preemptive" -> "Priority (Non-Preemptive)"
      [] fn = "priority_preemptive" -> "Priority (Preemptive)"
      [] fn = "mlfq_scheduler" -> "Multi-Level Feedback Queue"
      [] fn = "intelligent_scheduler" -> "Intelligent"

\* The built-in scheduler that an algorithm identifier names.
policy_of(fn) ==
    CASE fn = "fcfs_scheduler" -> "FCFS"
      [] fn = "sjf_non_preemptive" -> "SJF-NP"
      [] fn = "sjf_preemptive" -> "SJF-P"
      [] fn = "priority_non_preemptive" -> "PR-NP"
      [] fn = "priority_preemptive" -> "PR-P"

\* One scheduler on the records of one core.  alg = [fn, quanta]: quanta is
\* <<quantum>> for rr_scheduler and intelligent_scheduler, the level quanta
\* for mlfq_scheduler, <<>> otherwise.  A quantum <= 0 passed to Round Robin
\* or MLFQ fails with InvalidConfiguration.
RECURSIVE single_core(_, _)
single_core(alg, ps) ==
    LET none == [raised |-> "none", procs |-> <<>>, timeline |-> <<>>]
        bad == [none EXCEPT !.raised = "InvalidConfiguration"]
        ok(r) == [raised |-> "none", procs |-> r.procs, timeline |-> r.timeline]
    IN CASE alg.fn \in {"fcfs_scheduler", "sjf_non_preemptive",
                        "priority_non_preemptive"} ->
                ok(non_preemptive(policy_of(alg.fn), ps, 0, <<>>))
         [] alg.fn \in {"sjf_preemptive", "priority_preemptive"} ->
                ok(preemptive(policy_of(alg.fn), ps, 0, <<>>, 0))
         [] alg.fn \in {"rr_scheduler", "mlfq_scheduler"} ->
                IF \E l \in DOMAIN alg.quanta : alg.quanta[l] <= 0 THEN bad
                ELSE ok(feedback_queues(alg.quanta, ps, 0, <<>>,
                                        [l \in DOMAIN alg.quanta |-> <<>>], {}))
         [] alg.fn = "intelligent_scheduler" ->
                IF ps = <<>> THEN none
                ELSE LET id == predict_best_algorithm(ps)
                     IN single_core(
                            IF id = "RR" THEN [fn |-> "rr_scheduler",
                                               quanta |-> alg.quanta]
                            ELSE IF id = "SJF-P"
                            THEN [fn |-> "sjf_preemptive", quanta |-> <<>>]
                            ELSE [fn |-> "priority_non_preemptive",
                                  quanta |-> <<>>], ps)

\* The elements of s at the places of S, in order.
RECURSIVE select_seq(_, _)
select_seq(s, S) ==
    IF S = {} THEN <<>>
    ELSE LET i == CHOOSE x \in S : \A y \in S : x <= y
         IN <<s[i]>> \o select_seq(s, S \ {i})

\* The per-core results for cores c..n-1, or the first failure.
RECURSIVE run_cores(_, _, _, _)
run_cores(alg, ps, n, c) ==
    IF c >= n THEN [raised |-> "none", cores |-> <<>>]
    ELSE LET mine == {i \in DOMAIN ps : (i - 1) % n = c}
             after(r, rest) ==
                 IF rest.raised # "none" THEN rest
                 ELSE [raised |-> "none", cores |-> <<r>> \o rest.cores]
             first(r) ==
                 IF r.raised # "none" THEN [raised |-> r.raised, cores |-> <<>>]
                 ELSE after(r, run_cores(alg, ps, n, c + 1))
         IN first(single_core(alg, select_seq(ps, mine)))

RECURSIVE concat_timelines(_, _)
concat_timelines(cores, c) ==
    IF c > Len(cores) THEN <<>>
    ELSE [k \in DOMAIN cores[c].timeline |->
             [core |-> c - 1, pid |-> cores[c].timeline[k].pid,
              start |-> cores[c].timeline[k].start,
              end |-> cores[c].timeline[k].end]]
         \o concat_timelines(cores, c + 1)

\* multi_core_scheduler(processes, num_cores, algorithm) (spec 4.3): works
\* on its own copies of the processes; process i (from 0) goes to core
\* i mod num_cores; the finalized processes come back in input order and the
\* timelines are concatenated, tagged with the core.  num_cores < 1 fails
\* with InvalidConfiguration before any scheduler runs.
multi_core_scheduler(objects, n, alg) ==
    LET copies == [i \in DOMAIN objects |->
                      Process(objects[i].pid, objects[i].arrival_time,
                              objects[i].burst_time, objects[i].priority)]
        failed(e, quanta) ==
            [raised |-> e, procs |-> <<>>, name |-> "", timeline |-> <<>>,
             scheduler |-> "none", received |-> quanta]
        merged(r) ==
            IF r.raised # "none" THEN failed(r.raised, alg.quanta)
            ELSE [raised |-> "none",
                  procs |-> [i \in DOMAIN objects |->
                               LET c == ((i - 1) % n) + 1
                                   k == Cardinality({j \in 1..i :
                                             (j - 1) % n = (i - 1) % n})
                               IN Obj(r.cores[c].procs[k])],
                  name |-> algorithm_name(alg.fn),
                  timeline |-> concat_timelines(r.cores, 1),
                  scheduler |-> alg.fn, received |-> alg.quanta]
    IN IF n < 1 THEN failed("InvalidConfiguration", <<>>)
       ELSE merged(run_cores(alg, copies, n, 0))

\* calculate_metrics (spec 4.6) is a function of finalized processes: the
\* means and the makespan are arithmetic on waiting_time, turnaround_time
\* and end_time, a TypeError on a field that is None.
calculate_metrics_raises(objects) ==
    \E i \in DOMAIN objects :
        \/ objects[i].waiting_time = None
        \/ objects[i].turnaround_time = None
        \/ objects[i].end_time = None

-----------------------------------------------------------------------------
(* Custom scheduling code.  The text of the custom-algorithm box is one of *)
(* these programs:                                                         *)
(*   "default"   the text inserted at line 292:                            *)
(*                 def custom_scheduler(processes, quantum):               *)
(*                     return processes, 'Custom', []                      *)
(*   "no_entry"  x = 1                                                     *)
(*   "syntax"    def custom_scheduler(:                                    *)
(*   "raises"    def custom_scheduler(processes, quantum):                 *)
(*                   raise RuntimeError('boom')                            *)
(*   "in_place"  def custom_scheduler(processes, quantum):                 *)
(*                   t, tl = 0, []                                         *)
(*                   for p in processes:                                   *)
(*                       p.start_time = max(t, p.arrival_time)             *)
(*                       p.end_time = t = p.start_time + p.burst_time      *)
(*                       p.remaining_time = 0                              *)
(*                       p.turnaround_time = p.end_time - p.arrival_time   *)
(*                       p.waiting_time = p.turnaround_time - p.burst_time *)
(*                       tl.append((0, p.pid, p.start_time, p.end_time))   *)
(*                   return processes, 'Custom FCFS', tl                   *)
(*   "first"     as "in_place", on processes[:1] only, which it returns    *)
(*   "zero_wait" as "in_place", with p.waiting_time = 0                    *)
(*   "remembers" fresh = 'seen' not in globals()                           *)
(*               globals()['seen'] = True                                  *)
(*               def custom_scheduler(processes, quantum, fresh=fresh):    *)
(*                   ... as "in_place" ...                                 *)
(*                   name = 'Custom (fresh)' if fresh else 'Custom (seen)' *)
(*                   return processes, name, tl                            *)
(***************************************************************************)
CustomCodes ==
    {"default", "no_entry", "syntax", "raises", "in_place", "first",
     "zero_wait", "remembers"}

\* Whether exec of the text binds the name custom_scheduler.
defines_custom_scheduler(code) ==
    code \in {"default", "raises", "in_place", "first", "zero_wait",
              "remembers"}

\* The exception exec of the text raises.
exec_raises(code) == IF code = "syntax" THEN "SyntaxError" ELSE "none"

\* exec(code, globals(), local_vars), lines 316 and 391: the text runs with
\* the module's own globals, and what it stores there stays; g: the names
\* custom code has stored there so far.
globals_after_exec(code, g) ==
    IF code = "remembers" THEN g \cup {"seen"} ELSE g

\* The algorithm name the entry point returns when the module's globals
\* hold the names g.
custom_algo_name(entry, g) ==
    CASE entry \in {"default", "<lambda>"} -> "Custom"
      [] entry = "remembers" ->
             IF "seen" \in g THEN "Custom (seen)" ELSE "Custom (fresh)"
      [] OTHER -> "Custom FCFS"

\* "in_place" on the objects ids[k..] of heap h, from time t.
RECURSIVE in_place(_, _, _, _, _)
in_place(h, ids, k, t, tl) ==
    IF k > Len(ids) THEN [heap |-> h, timeline |-> tl]
    ELSE LET p == h[ids[k]]
             start == Max(t, p.arrival_time)
             end == start + p.burst_time
         IN in_place([h EXCEPT ![ids[k]] = finalize(p, start, end)], ids,
                     k + 1, end,
                     Append(tl, [core |-> 0, pid |-> p.pid, start |-> start,
                                 end |-> end]))

\* What a simulation call gives back: the exception raised (then nothing
\* else is returned), the heap after the call, the three returned values,
\* and for the history the scheduler that ran and whether custom code ran
\* with the list of the session's own objects.
call_failed(h, e, real) ==
    [raised |-> e, heap |-> h, procs |-> <<>>, name |-> "", timeline |-> <<>>,
     scheduler |-> "none", received |-> <<>>, exec_real |-> real,
     predicted |-> "none"]

\* The call of the entry point, or of the default lambda of line 393, on
\* the list ids of objects.
call_custom_scheduler(entry, h, ids) ==
    LET refs == [i \in DOMAIN ids |-> Ref(ids[i])]
        returned(h2, procs, name, tl) ==
            [raised |-> "none", heap |-> h2, procs |-> procs, name |-> name,
             timeline |-> tl, scheduler |-> entry, received |-> <<>>,
             exec_real |-> TRUE,
             predicted |-> "none"]
        name == custom_algo_name(entry, module_globals)
        scheduled(r, procs) == returned(r.heap, procs, name, r.timeline)
        zero_wait(r) ==
            returned([id \in DOMAIN r.heap |->
                         IF id \in Range(ids)
                         THEN [r.heap[id] EXCEPT !.waiting_time = 0]
                         ELSE r.heap[id]],
                     refs, name, r.timeline)
    IN CASE entry \in {"default", "<lambda>"} ->
                returned(h, refs, name, <<>>)
         [] entry = "raises" -> call_failed(h, "RuntimeError", TRUE)
         [] entry = "in_place" ->
                scheduled(in_place(h, ids, 1, 0, <<>>), refs)
         [] entry = "first" ->
                scheduled(in_place(h, Prefix(ids, 1), 1, 0, <<>>),
                          Prefix(refs, 1))
         [] entry = "zero_wait" -> zero_wait(in_place(h, ids, 1, 0, <<>>))
         [] entry = "remembers" ->
                scheduled(in_place(h, ids, 1, 0, <<>>), refs)

\* run_custom_algorithm, lines 390-393: the code is executed with the list
\* it was given in its namespace (a text that does not compile executes
\* nothing); a text that binds no custom_scheduler runs the default lambda.
run_custom_algorithm(code, h, ids, quantum) ==
    IF exec_raises(code) # "none" THEN call_failed(h, exec_raises(code), FALSE)
    ELSE call_custom_scheduler(
             IF defines_custom_scheduler(code) THEN code ELSE "<lambda>",
             h, ids)

\* The scheduler run_algorithm passes to multi_core_scheduler, lines 373-388.
scheduler_ignores_quantum(algo, quantum) ==
    CASE algo = "FCFS" -> [fn |-> "fcfs_scheduler", quanta |-> <<>>]
      [] algo = "SJF-NP" -> [fn |-> "sjf_non_preemptive", quanta |-> <<>>]
      [] algo = "SJF-P" -> [fn |-> "sjf_preemptive", quanta |-> <<>>]
      [] algo = "RR" -> [fn |-> "rr_scheduler", quanta |-> <<2>>]
      [] algo = "PR-NP" -> [fn |-> "priority_non_preemptive", quanta |-> <<>>]
      [] algo = "PR-P" -> [fn |-> "priority_preemptive", quanta |-> <<>>]
      [] algo = "MLFQ" -> [fn |-> "mlfq_scheduler", quanta |-> <<2, 4, 8>>]
      [] OTHER -> [fn |-> "intelligent_scheduler", quanta |-> <<2>>]

scheduler_sjf_swapped(algo, quantum) ==
    CASE algo = "FCFS" -> [fn |-> "fcfs_scheduler", quanta |-> <<>>]
      [] algo = "SJF-NP" -> [fn |-> "sjf_non_preemptive", quanta |-> <<>>]
      [] algo = "SJF-P" -> [fn |-> "sjf_non_preemptive", quanta |-> <<>>]
      [] algo = "RR" -> [fn |-> "rr_scheduler", quanta |-> <<quantum>>]
      [] algo = "PR-NP" -> [fn |-> "priority_non_preemptive", quanta |-> <<>>]
      [] algo = "PR-P" -> [fn |-> "priority_preemptive", quanta |-> <<>>]
      [] algo = "MLFQ" ->
             [fn |-> "mlfq_scheduler",
              quanta |-> <<quantum, quantum * 2, quantum * 4>>]
      [] OTHER -> [fn |-> "intelligent_scheduler", quanta |-> <<quantum>>]

scheduler_fcfs_by_burst(algo, quantum) ==
    CASE algo = "FCFS" -> [fn |-> "sjf_non_preemptive", quanta |-> <<>>]
      [] algo = "SJF-NP" -> [fn |-> "sjf_non_preemptive", quanta |-> <<>>]
      [] algo = "SJF-P" -> [fn |-> "sjf_preemptive", quanta |-> <<>>]
      [] algo = "RR" -> [fn |-> "rr_scheduler", quanta |-> <<quantum>>]
      [] algo = "PR-NP" -> [fn |-> "priority_non_preemptive", quanta |-> <<>>]
      [] algo = "PR-P" -> [fn |-> "priority_preemptive", quanta |-> <<>>]
      [] algo = "MLFQ" ->
             [fn |-> "mlfq_scheduler",
              quanta |-> <<quantum, quantum * 2, quantum * 4>>]
      [] OTHER -> [fn |-> "intelligent_scheduler", quanta |-> <<quantum>>]

scheduler_mlfq_flat_levels(algo, quantum) ==
    CASE algo = "FCFS" -> [fn |-> "fcfs_scheduler", quanta |-> <<>>]
      [] algo = "SJF-NP" -> [fn |-> "sjf_non_preemptive", quanta |-> <<>>]
      [] algo = "SJF-P" -> [fn |-> "sjf_preemptive", quanta |-> <<>>]
      [] algo = "RR" -> [fn |-> "rr_scheduler", quanta |-> <<quantum>>]
      [] algo = "PR-NP" -> [fn |-> "priority_non_preemptive", quanta |-> <<>>]
      [] algo = "PR-P" -> [fn |-> "priority_preemptive", quanta |-> <<>>]
      [] algo = "MLFQ" ->
             [fn |-> "mlfq_scheduler",
              quanta |-> <<quantum, quantum * 2, quantum * 2>>]
      [] OTHER -> [fn |-> "intelligent_scheduler", quanta |-> <<quantum>>]

scheduler_for(algo, quantum) ==
    CASE algo = "FCFS" -> [fn |-> "fcfs_scheduler", quanta |-> <<>>]
      [] algo = "SJF-NP" -> [fn |-> "sjf_non_preemptive", quanta |-> <<>>]
      [] algo = "SJF-P" -> [fn |-> "sjf_preemptive", quanta |-> <<>>]
      [] algo = "RR" -> [fn |-> "rr_scheduler", quanta |-> <<quantum>>]
      [] algo = "PR-NP" -> [fn |-> "priority_non_preemptive", quanta |-> <<>>]
      [] algo = "PR-P" -> [fn |-> "priority_preemptive", quanta |-> <<>>]
      [] algo = "MLFQ" ->
             [fn |-> "mlfq_scheduler",
              quanta |-> <<quantum, quantum * 2, quantum * 4>>]
      [] OTHER -> [fn |-> "intelligent_scheduler", quanta |-> <<quantum>>]

\* run_algorithm, lines 372-388, with self.num_cores = n.
run_algorithm_first_only(algo, h, ids, quantum, n) ==
    LET returned(r) ==
            [raised |-> r.raised, heap |-> h, procs |-> r.procs,
             name |-> r.name, timeline |-> r.timeline,
             scheduler |-> r.scheduler, received |-> r.received,
             exec_real |-> FALSE,
             predicted |-> "none"]
    IN returned(multi_core_scheduler(ObjectsOf(h, Prefix(ids, 1)), n,
                                     scheduler_for(algo, quantum)))

run_algorithm(algo, h, ids, quantum, n) ==
    LET returned(r) ==
            [raised |-> r.raised, heap |-> h, procs |-> r.procs,
             name |-> r.name, timeline |-> r.timeline,
             scheduler |-> r.scheduler, received |-> r.received,
             exec_real |-> FALSE,
             predicted |-> "none"]
    IN returned(multi_core_scheduler(ObjectsOf(h, ids), n,
                                     scheduler_for(algo, quantum)))

\* Lines 348-356 and 407-415: the call both simulation handlers make for
\* the chosen algorithm, on self.processes[:].
simulation_call(algo, code, h, ids, quantum, n) ==
    IF algo = "Custom" THEN run_custom_algorithm(code, h, ids, quantum)
    ELSE IF algo = "Intelligent"
    THEN LET renamed(r, predicted_algo) ==
                 IF r.raised # "none"
                 THEN [r EXCEPT !.predicted = predicted_algo]
                 ELSE [r EXCEPT !.predicted = predicted_algo,
                                !.name = "Intelligent (" \o predicted_algo
                                            \o ")"]
             intelligent(predicted_algo) ==
                 renamed(run_algorithm(predicted_algo, h, ids, quantum, n),
                         predicted_algo)
         IN intelligent(predict_best_algorithm(ObjectsOf(h, ids)))
    ELSE run_algorithm(algo, h, ids, quantum, n)

\* The exception classes of the model; all derive from Exception.
ExceptionClasses ==
    {"ValueError", "TypeError", "SyntaxError", "RuntimeError", "IndexError",
     "AttributeError", "InvalidConfiguration", "InvalidInput"}

\* "except Exception", lines 366 and 422 (and 321).
catches_only_ValueError(e) == e = "ValueError"

simulation_catches(e) == e \in ExceptionClasses

-----------------------------------------------------------------------------
(* The simulation handlers.                                                *)

\* The objects a result list shows.
shown(h, cells) == [i \in DOMAIN cells |-> Deref(h, cells[i])]

\* step_simulation, lines 426-435, on a session whose fields have these
\* values; metrics_raise: calculate_metrics(self.step_processes) raises.
\* The exception is raised after the assignments of the branch taken and
\* before the status is set.
step_falls_through(sm, cs, stl, tl, has, metrics_raise) ==
    LET raised == IF ~has THEN "AttributeError"
                  ELSE IF metrics_raise THEN "TypeError" ELSE "none"
    IN [step_mode |-> sm /\ cs < Len(stl), current_step |-> cs + 1,
        timeline |-> Prefix(stl, cs + 1), raised |-> raised,
        status |-> "Step " \o ToString(cs + 1) \o " of "
                      \o ToString(Len(stl))]

step_simulation(sm, cs, stl, tl, has, metrics_raise) ==
    LET raised == IF ~has THEN "AttributeError"
                  ELSE IF metrics_raise THEN "TypeError" ELSE "none"
    IN IF ~sm \/ cs >= Len(stl)
       THEN [step_mode |-> FALSE, current_step |-> cs, timeline |-> tl,
             raised |-> raised, status |-> "Step mode completed"]
       ELSE [step_mode |-> sm, current_step |-> cs + 1,
             timeline |-> Prefix(stl, cs + 1), raised |-> raised,
             status |-> "Step " \o ToString(cs + 1) \o " of "
                           \o ToString(Len(stl))]

\* step_simulation called on its own: nothing catches what it raises.
StepSimulation ==
    \E st \in {step_simulation(step_mode, current_step, step_timeline,
                               timeline, has_step_processes,
                               calculate_metrics_raises(
                                   shown(heap, step_processes)))} :
       /\ step_mode' = st.step_mode
       /\ current_step' = st.current_step
       /\ timeline' = st.timeline
       /\ status' = IF st.raised = "none" THEN st.status ELSE status
       /\ escaped' = st.raised
       /\ last' = [LastOf("step_simulation") EXCEPT
                     !.fault = st.raised,
                     !.outcome = IF st.raised = "none" THEN "ok"
                                 ELSE "escaped"]
       /\ UNCHANGED <<listVars, step_timeline, step_processes,
                      has_step_processes, current_processes,
                      current_algo_name, num_cores, module_globals>>
       /\ origin' = IF step_mode /\ current_step < Len(step_timeline)
                    THEN [origin EXCEPT !.timeline = "start_step_mode"]
                    ELSE origin

\* Lines 343-356 of run_simulation: the settings are read in this order and
\* the simulation is called; num_cores is assigned before it is checked.
run_simulation_call(h, ids, algo, quantumText, coresText, code) ==
    IF ~IsIntText(coresText)
    THEN [num_cores |-> num_cores, algo_read |-> FALSE, quantum_read |-> FALSE,
          call |-> call_failed(h, "ValueError", FALSE)]
    ELSE IF ParseInt(coresText) < 1
    THEN [num_cores |-> ParseInt(coresText), algo_read |-> FALSE,
          quantum_read |-> FALSE, call |-> call_failed(h, "ValueError", FALSE)]
    ELSE IF ~IsIntText(quantumText)
    THEN [num_cores |-> ParseInt(coresText), algo_read |-> TRUE,
          quantum_read |-> TRUE, call |-> call_failed(h, "ValueError", FALSE)]
    ELSE [num_cores |-> ParseInt(coresText), algo_read |-> TRUE,
          quantum_read |-> TRUE,
          call |-> simulation_call(algo, code, h, ids, ParseInt(quantumText),
                                   ParseInt(coresText))]

\* Lines 404-415 of start_step_mode: the same without the check of num_cores.
start_step_mode_call(h, ids, algo, quantumText, coresText, code) ==
    IF ~IsIntText(coresText)
    THEN [num_cores |-> num_cores, algo_read |-> FALSE, quantum_read |-> FALSE,
          call |-> call_failed(h, "ValueError", FALSE)]
    ELSE IF ~IsIntText(quantumText)
    THEN [num_cores |-> ParseInt(coresText), algo_read |-> TRUE,
          quantum_read |-> TRUE, call |-> call_failed(h, "ValueError", FALSE)]
    ELSE [num_cores |-> ParseInt(coresText), algo_read |-> TRUE,
          quantum_read |-> TRUE,
          call |-> simulation_call(algo, code, h, ids, ParseInt(quantumText),
                                   ParseInt(coresText))]

\* The history of a simulation handler call.
simulation_last(op, att, algo, quantumText, coresText, code, exc, caught) ==
    LET code_read == IF att.algo_read /\ att.quantum_read
                        /\ IsIntText(quantumText) /\ algo = "Custom"
                     THEN code ELSE "none"
        repeated == /\ last.op = op /\ last.outcome = "ok"
                    /\ last.algo = algo /\ last.quantum = quantumText
                    /\ last.cores = coresText /\ last.code = code_read
                    /\ processes # <<>>
    IN [op |-> op,
        algo |-> IF att.algo_read THEN algo ELSE "none",
        quantum |-> IF att.quantum_read THEN quantumText ELSE "",
        cores |-> coresText,
        code |-> code_read,
        predicted |-> att.call.predicted,
        scheduler |-> att.call.scheduler,
        received |-> att.call.received,
        exec_real |-> att.call.exec_real,
        fault |-> exc,
        outcome |-> IF exc = "none" THEN "ok"
                    ELSE IF caught THEN "caught" ELSE "escaped",
        clicks |-> IF op # "start_step_mode" \/ exc # "none" THEN 0
                   ELSE IF repeated THEN Min(last.clicks + 1, MaxClicks)
                   ELSE 1]

\* The list a simulation handler works on, lines 326-330 and 396-400: an
\* empty list is filled with random processes if the user agrees (yes).
seeded_list(draws) ==
    IF processes = <<>>
    THEN construct_all(heap, <<>>, random_records(0, draws))
    ELSE [heap |-> heap, ids |-> processes, raised |-> "none"]

\* run_simulation, lines 325-370.
run_simulation(yes, draws, algo, quantumText, coresText, code) ==
    IF processes = <<>> /\ ~yes
    THEN /\ status' = "Simulation cancelled: No processes"
         /\ escaped' = "none"
         /\ last' = [LastOf("run_simulation") EXCEPT !.outcome = "cancelled"]
         /\ UNCHANGED <<listVars, stepVars, resultVars, num_cores,
                 module_globals, origin>>
    ELSE
    \E seeded \in {seeded_list(draws)} :
    \E att \in {run_simulation_call(seeded.heap, seeded.ids, algo,
                                    quantumText, coresText, code)} :
    \E exc \in {IF att.call.raised # "none" THEN att.call.raised
                ELSE IF calculate_metrics_raises(
                            shown(att.call.heap, att.call.procs))
                THEN "TypeError" ELSE "none"} :
    LET c == att.call
        assigned == c.raised = "none"
        caught == simulation_catches(exc)
    IN /\ processes = <<>> =>
              IsRandomDraw(draws) /\ Len(draws) <= MaxProcs
       /\ processes' = seeded.ids
       /\ listbox_size' = IF processes = <<>> THEN Len(seeded.ids)
                          ELSE listbox_size
       /\ num_cores' = att.num_cores
       /\ current_processes' = IF assigned THEN c.procs ELSE current_processes
       /\ current_algo_name' = IF assigned THEN c.name ELSE current_algo_name
       /\ timeline' = IF assigned THEN c.timeline ELSE timeline
       /\ heap' = Collect(c.heap, seeded.ids, current_processes',
                          step_processes)
       /\ status' = IF exc = "none" THEN "Simulation completed"
                    ELSE IF caught THEN "Simulation failed"
                    ELSE "Running simulation..."
       /\ escaped' = IF exc # "none" /\ ~caught THEN exc ELSE "none"
       /\ last' = simulation_last("run_simulation", att, algo, quantumText,
                                  coresText, code, exc, caught)
       /\ module_globals' = IF c.exec_real
                            THEN globals_after_exec(code, module_globals)
                            ELSE module_globals
       /\ origin' = IF assigned
                    THEN [current_algo_name |-> "run_simulation",
                          current_processes |-> "run_simulation",
                          timeline |-> "run_simulation"]
                    ELSE origin
       /\ UNCHANGED <<drag_index, stepVars>>

\* start_step_mode, lines 395-424.
start_step_mode(yes, draws, algo, quantumText, coresText, code) ==
    IF processes = <<>> /\ ~yes
    THEN /\ status' = "Step mode cancelled: No processes"
         /\ escaped' = "none"
         /\ last' = [LastOf("start_step_mode") EXCEPT !.outcome = "cancelled"]
         /\ UNCHANGED <<listVars, stepVars, resultVars, num_cores,
                 module_globals, origin>>
    ELSE
    \E seeded \in {seeded_list(draws)} :
    \E att \in {start_step_mode_call(seeded.heap, seeded.ids, algo,
                                     quantumText, coresText, code)} :
    \E st \in {step_simulation(TRUE, 0, att.call.timeline,
                               att.call.timeline, TRUE,
                               calculate_metrics_raises(
                                   shown(att.call.heap, att.call.procs)))} :
    LET c == att.call
        assigned == c.raised = "none"
        exc == IF ~assigned THEN c.raised ELSE st.raised
        caught == simulation_catches(exc)
    IN /\ processes = <<>> =>
              IsRandomDraw(draws) /\ Len(draws) <= MaxProcs
       /\ processes' = seeded.ids
       /\ listbox_size' = IF processes = <<>> THEN Len(seeded.ids)
                          ELSE listbox_size
       /\ num_cores' = att.num_cores
       /\ step_processes' = IF assigned THEN c.procs ELSE step_processes
       /\ has_step_processes' = (assigned \/ has_step_processes)
       /\ current_algo_name' = IF assigned THEN c.name ELSE current_algo_name
       /\ step_timeline' = IF assigned THEN c.timeline ELSE step_timeline
       /\ step_mode' = IF assigned THEN st.step_mode ELSE step_mode
       /\ current_step' = IF assigned THEN st.current_step ELSE current_step
       /\ timeline' = IF assigned THEN st.timeline ELSE timeline
       /\ heap' = Collect(c.heap, seeded.ids, current_processes,
                          step_processes')
       /\ status' = IF exc = "none" THEN "Step mode started"
                    ELSE IF caught THEN "Step mode failed"
                    ELSE IF assigned /\ st.raised = "none" THEN st.status
                    ELSE "Starting step mode..."
       /\ escaped' = IF exc # "none" /\ ~caught THEN exc ELSE "none"
       /\ last' = simulation_last("start_step_mode", att, algo, quantumText,
                                  coresText, code, exc, caught)
       /\ module_globals' = IF c.exec_real
                            THEN globals_after_exec(code, module_globals)
                            ELSE module_globals
       /\ origin' = IF assigned
                    THEN [origin EXCEPT
                            !.current_algo_name = "start_step_mode",
                            !.timeline = "start_step_mode"]
                    ELSE origin
       /\ UNCHANGED <<drag_index, current_processes>>

\* test_custom_code, lines 312-323: the code is executed with an empty
\* process list and must bind custom_scheduler.
test_custom_code(code) ==
    LET exc == IF exec_raises(code) # "none" THEN exec_raises(code)
               ELSE IF ~defines_custom_scheduler(code) THEN "ValueError"
               ELSE "none"
        caught == simulation_catches(exc)
    IN /\ status' = IF exc = "none" THEN "Custom algorithm code validated"
                    ELSE IF caught
                    THEN "Custom algorithm code validation failed"
                    ELSE status
       /\ escaped' = IF exc # "none" /\ ~caught THEN exc ELSE "none"
       /\ last' = [LastOf("test_custom_code") EXCEPT
                     !.code = code, !.fault = exc,
                     !.outcome = IF exc = "none" THEN "ok"
                                 ELSE IF caught THEN "caught" ELSE "escaped"]
       /\ module_globals' = IF exec_raises(code) # "none" THEN module_globals
                            ELSE globals_after_exec(code, module_globals)
       /\ UNCHANGED <<listVars, stepVars, resultVars, num_cores, origin>>

\* view_gantt, lines 488-495.
view_gantt ==
    /\ status' = IF timeline = <<>> THEN "No timeline available"
                 ELSE "Gantt chart opened"
    /\ escaped' = "none"
    /\ last' = LastOf("view_gantt")
    /\ UNCHANGED <<listVars, stepVars, resultVars, num_cores,
                 module_globals, origin>>

-----------------------------------------------------------------------------
(* The session after construction, lines 37-47 and 83.                     *)

no_step ==
    /\ step_mode = FALSE
    /\ current_step = 0
    /\ step_timeline = <<>>
    /\ step_processes = <<>>
    /\ has_step_processes = FALSE

no_result ==
    /\ current_processes = <<>>
    /\ current_algo_name = "N/A"
    /\ timeline = <<>>

Init ==
    /\ heap = <<>>
    /\ processes = <<>>
    /\ drag_index = <<>>
    /\ listbox_size = 0
    /\ no_step
    /\ no_result
    /\ num_cores = 1
    /\ module_globals = {}
    /\ origin = [current_algo_name |-> "__init__",
                 current_processes |-> "__init__", timeline |-> "__init__"]
    /\ status = "Process Management section loaded"
    /\ escaped = "none"
    /\ last = LastOf("__init__")

-----------------------------------------------------------------------------
(* The list handlers alone, on what the user may enter.                    *)

AdmitPids == {"P1", "P2"}
AdmitArrivalTexts == {"-1", "0"}
AdmitBurstTexts == {"0", "2"}
AdmitPriorityTexts == {"1", "x"}

\* What random.randint returns, sampled at both ends of each range.
AdmitDraws ==
    [arrival : {0}, burst : {1, 10}, priority : {5}]

\* The files load_config is given.
AdmitConfigs ==
    LET rec(pid, a, b, pr) ==
            [pid |-> pid, arrival |-> a, burst |-> b, priority |-> pr]
    IN { <<>>,
         <<rec("A", 0, 1, 0), rec("B", 2, 3, 1)>>,
         <<rec("A", 0, 1, 0), rec("B", -1, 3, 1)>>,
         <<rec("A", 0, 0, 0)>>,
         <<rec("A", 0, 1, 0), rec("A", 1, 0, 1), rec("C", 1, 1, 1)>> }

AddProcess ==
    \E pid \in AdmitPids, a \in AdmitArrivalTexts, b \in AdmitBurstTexts,
       pr \in AdmitPriorityTexts : add_process(pid, a, b, pr)

AddRandomProcesses ==
    \E n \in 3..MaxProcs : \E draws \in [1..n -> AdmitDraws] :
        add_random_processes(draws)

ClearAll == clear_all

LoadConfig ==
    \/ load_config(FALSE, "", <<>>)
    \/ \E config \in AdmitConfigs : load_config(TRUE, "procs.json", config)

OnDrag == \E row \in 0..MaxProcs : on_drag(row)

OnDrop == \E row \in 0..MaxProcs : on_drop(row)

NextAdmit ==
    \/ AddProcess
    \/ AddRandomProcesses
    \/ ClearAll
    \/ LoadConfig
    \/ OnDrag
    \/ OnDrop

SpecAdmit == Init /\ [][NextAdmit]_vars

-----------------------------------------------------------------------------
(* Sessions of the simulation handlers on the settings the user may enter, *)
(* on process lists loaded from files or drawn at random.                  *)

SimRecord(pid, a, b, pr) ==
    [pid |-> pid, arrival |-> a, burst |-> b, priority |-> pr]

\* What random.randint returns for the processes of an empty list.
SimDraws == [arrival : {0}, burst : {1}, priority : {5}]

\* The dialog and the random draws are read only when the list is empty.
Seeds ==
    IF processes # <<>> THEN {[yes |-> TRUE, draws |-> <<>>]}
    ELSE {[yes |-> FALSE, draws |-> <<>>]}
         \cup {[yes |-> TRUE, draws |-> d] :
                  d \in UNION {[1..n -> SimDraws] : n \in 3..MaxProcs}}

\* One click on a button or one call of a method, with the settings of the
\* widgets drawn from the given set: algo, quantum, cores and code are the
\* contents of algo_var, quantum_var, cores_var and custom_algo_text.
RunSimulation(settings) ==
    \E s \in settings, seed \in Seeds :
        run_simulation(seed.yes, seed.draws, s.algo, s.quantum, s.cores, s.code)

StartStepMode(settings) ==
    \E s \in settings, seed \in Seeds :
        start_step_mode(seed.yes, seed.draws, s.algo, s.quantum, s.cores,
                        s.code)

TestCustomCode(settings) == \E s \in settings : test_custom_code(s.code)

ViewGantt == view_gantt

LoadProcesses(configs) ==
    \E config \in configs : load_config(TRUE, "procs.json", config)

\* Sessions on the built-in algorithms: a list of equal bursts, one of
\* unequal bursts and distinct priorities, one of equal priorities.
BuiltinConfigs ==
    { <<SimRecord("P1", 0, 2, 1), SimRecord("P2", 1, 2, 0)>>,
      <<SimRecord("P1", 0, 4, 1), SimRecord("P2", 1, 1, 0)>>,
      <<SimRecord("P1", 0, 3, 0), SimRecord("P2", 0, 1, 0)>> }

BuiltinSettings ==
    [algo : {"RR", "MLFQ", "Intelligent"}, quantum : {"0", "2"}, cores : {"1"},
     code : {"default"}]

Next ==
    \/ LoadProcesses(BuiltinConfigs)
    \/ RunSimulation(BuiltinSettings)
    \/ StartStepMode(BuiltinSettings)
    \/ StepSimulation
    \/ TestCustomCode(BuiltinSettings)
    \/ ViewGantt

Spec == Init /\ [][Next]_vars

\* Sessions on custom code, on the random processes of an empty list.
CustomSettings ==
    [algo : {"Custom"}, quantum : {"1"}, cores : {"1"}, code : CustomCodes]
    \cup [algo : {"Custom"}, quantum : {"1"}, cores : {"0"},
          code : {"in_place"}]

NextCustom ==
    \/ RunSimulation(CustomSettings)
    \/ StartStepMode(CustomSettings)
    \/ StepSimulation
    \/ TestCustomCode(CustomSettings)
    \/ ViewGantt

SpecCustom == Init /\ [][NextCustom]_vars

\* Runs of every built-in algorithm on one and two cores: the list of the
\* FCFS example (spec 8), one whose second process arrives at the tick the
\* first Round Robin slice of quantum 2 ends, one with arrivals during that
\* slice and a shortest job arriving last, one of equal arrivals.
SchedulerConfigs ==
    { <<SimRecord("P1", 0, 5, 1), SimRecord("P2", 1, 3, 2),
        SimRecord("P3", 2, 8, 1)>>,
      <<SimRecord("P1", 0, 3, 0), SimRecord("P2", 2, 1, 0)>>,
      <<SimRecord("P1", 0, 3, 1), SimRecord("P2", 1, 3, 0),
        SimRecord("P3", 2, 1, 2)>>,
      <<SimRecord("P1", 0, 2, 1), SimRecord("P2", 0, 1, 0)>> }

BuiltinAlgorithms ==
    {"FCFS", "SJF-NP", "SJF-P", "RR", "PR-NP", "PR-P", "MLFQ", "Intelligent"}

SchedulerSettings ==
    [algo : BuiltinAlgorithms, quantum : {"1", "2"}, cores : {"1", "2"},
     code : {"default"}]

NextSchedulers ==
    \/ LoadProcesses(SchedulerConfigs)
    \/ RunSimulation(SchedulerSettings)
    \/ ViewGantt

SpecSchedulers == Init /\ [][NextSchedulers]_vars

-----------------------------------------------------------------------------
(* C1: after any sequence of add_process, add_random_processes,            *)
(* load_config, on_drop and clear_all, every Process of the session's      *)
(* process list has arrival_time >= 0 and burst_time > 0.                  *)
C1_AdmittedProcessesValid ==
    \A i \in DOMAIN processes :
        /\ heap[processes[i]].arrival_time >= 0
        /\ heap[processes[i]].burst_time > 0

\* A list that load_config has refilled up to a record the constructor
\* rejected, and a list that add_process has rejected a process for.
C1_Witness ==
    \/ /\ last.op = "load_config" /\ last.fault = "InvalidInput"
       /\ Len(processes) >= 1
    \/ /\ last.op = "add_process" /\ last.fault = "ValueError"
       /\ Len(processes) >= 1

-----------------------------------------------------------------------------
(* C2: a custom text that does not define custom_scheduler fails with a    *)
(* validation error, reported as a failure by the handler it was submitted *)
(* through (test_custom_code, run_simulation or start_step_mode), and none *)
(* of it is executed with the session's processes.                         *)
C2_MissingEntryPointRejected ==
    (/\ last.op \in {"test_custom_code", "run_simulation", "start_step_mode"}
     /\ last.code \in CustomCodes
     /\ ~defines_custom_scheduler(last.code))
    => /\ last.outcome = "caught"
       /\ ~last.exec_real
       /\ status \in {"Custom algorithm code validation failed",
                      "Simulation failed", "Step mode failed"}

\* A step of one of the two handlers that start a simulation.
SimulationOps == {"run_simulation", "start_step_mode"}

FailureStatus(op) ==
    IF op = "run_simulation" THEN "Simulation failed" ELSE "Step mode failed"

(* C3: a core count below 1 is rejected with a configuration error by      *)
(* run_simulation and by start_step_mode before any scheduler is invoked:  *)
(* the handler reports the failure, no scheduler has run and no custom     *)
(* code has been executed.                                                 *)
C3_CoresBelowOneRejected ==
    (/\ last.op \in SimulationOps
     /\ IsIntText(last.cores)
     /\ ParseInt(last.cores) < 1)
    => /\ last.outcome = "caught"
       /\ last.scheduler = "none"
       /\ ~last.exec_real
       /\ status = FailureStatus(last.op)

(* C4: a Round Robin or MLFQ simulation started with a quantum <= 0 fails  *)
(* with a configuration error: no scheduler runs to completion, and the    *)
(* recorded result, timeline and step state stay what they were.           *)
C4_QuantumBelowOneRejected ==
    [][(/\ last'.op \in SimulationOps
        /\ \/ last'.algo \in {"RR", "MLFQ"}
           \/ last'.predicted \in {"RR", "MLFQ"}
        /\ IsIntText(last'.quantum)
        /\ ParseInt(last'.quantum) <= 0)
       => /\ last'.outcome = "caught"
          /\ last'.fault = "InvalidConfiguration"
          /\ last'.scheduler = "none"
          /\ status' = FailureStatus(last'.op)
          /\ UNCHANGED <<resultVars, stepVars>>]_vars

\* Round Robin refused with quantum 0 while an earlier result is recorded.
C4_Witness ==
    /\ last.op \in SimulationOps
    /\ last.algo \in {"RR", "MLFQ"}
    /\ last.quantum = "0"
    /\ last.outcome = "caught"
    /\ current_processes # <<>>
    /\ timeline # <<>>

(* C5: run_simulation and start_step_mode work on their own copy of the    *)
(* process data: after the run every Process of the session's list has the *)
(* field values, inputs and derived, it had before the run.                *)
C5_SessionProcessesUntouched ==
    [][(last'.op \in SimulationOps /\ processes # <<>>)
       => /\ processes' = processes
          /\ ObjectsOf(heap', processes') = ObjectsOf(heap, processes)]_vars

C7_AdvanceShowsNextPrefix ==
    (/\ last.op = "start_step_mode"
     /\ last.outcome = "ok")
    => /\ current_step = Min(last.clicks, Len(step_timeline))
       /\ timeline = Prefix(step_timeline, Min(last.clicks,
                                               Len(step_timeline)))

(* C8: once step mode has completed, a step_simulation call leaves the     *)
(* cursor, the visible timeline, the step processes and the algorithm name *)
(* unchanged.                                                              *)
C8_StepAfterCompletionIdempotent ==
    [][(/\ last'.op = "step_simulation"
        /\ has_step_processes
        /\ ~step_mode)
       => UNCHANGED <<current_step, timeline, step_processes,
                      current_algo_name>>]_vars

\* step_simulation called again on a completed replay of two segments or
\* more.
C8_Witness ==
    /\ last.op = "step_simulation"
    /\ last.outcome = "ok"
    /\ ~step_mode
    /\ status = "Step mode completed"
    /\ Len(step_timeline) >= 2
    /\ current_step = Len(step_timeline)
    /\ timeline = step_timeline

(* C9: in Intelligent mode the reported algorithm name is                  *)
(* 'Intelligent (X)', X the identifier the selector returned, and the      *)
(* scheduler that ran is the built-in algorithm X names.                   *)
C9_IntelligentRunsThePrediction ==
    (/\ last.op \in SimulationOps
     /\ last.algo = "Intelligent"
     /\ last.outcome = "ok")
    => /\ current_algo_name = "Intelligent (" \o last.predicted \o ")"
       /\ last.predicted = predict_best_algorithm(ObjectsOf(heap, processes))
       /\ last.scheduler =
              CASE last.predicted = "FCFS" -> "fcfs_scheduler"
                [] last.predicted = "SJF-NP" -> "sjf_non_preemptive"
                [] last.predicted = "SJF-P" -> "sjf_preemptive"
                [] last.predicted = "RR" -> "rr_scheduler"
                [] last.predicted = "PR-NP" -> "priority_non_preemptive"
                [] last.predicted = "PR-P" -> "priority_preemptive"
                [] last.predicted = "MLFQ" -> "mlfq_scheduler"
                [] OTHER -> "none"

\* An Intelligent run for which the selector chose SJF preemptive.
C9_Witness ==
    /\ last.op \in SimulationOps
    /\ last.algo = "Intelligent"
    /\ last.outcome = "ok"
    /\ last.predicted = "SJF-P"
    /\ current_algo_name = "Intelligent (SJF-P)"

(* C10: for every algorithm choice, Custom included, and every core count  *)
(* >= 1, the processes a simulation run returns contain every pid of the   *)
(* session's list exactly once and no other process.                       *)
C10_ResultHasEveryPidOnce ==
    (/\ last.op \in SimulationOps
     /\ last.outcome = "ok"
     /\ ParseInt(last.cores) >= 1)
    => LET result == shown(heap, IF last.op = "run_simulation"
                                 THEN current_processes ELSE step_processes)
       IN /\ Len(result) = Len(processes)
          /\ \A i \in DOMAIN processes :
                Cardinality({j \in DOMAIN result :
                                result[j].pid = heap[processes[i]].pid}) = 1

\* The ticks the segments of timeline tl give to pid.
busy_ticks(tl, pid) ==
    SumSeq([k \in DOMAIN tl |->
               IF tl[k].pid = pid THEN tl[k].end - tl[k].start ELSE 0])

\* Per core the segments of tl are in order of start and do not overlap.
TimelineOrdered(tl) ==
    /\ \A k \in DOMAIN tl : tl[k].start < tl[k].end
    /\ \A k, m \in DOMAIN tl :
          (k < m /\ tl[k].core = tl[m].core) => tl[k].end <= tl[m].start

\* tl covers the dispatched intervals of a run that returned procs: every
\* segment is of one of its processes and every process has all the ticks
\* of its burst.
TimelineCovers(tl, procs) ==
    /\ \A k \in DOMAIN tl : \E i \in DOMAIN procs : procs[i].pid = tl[k].pid
    /\ \A i \in DOMAIN procs :
          busy_ticks(tl, procs[i].pid) = procs[i].burst_time

(* C11: every timeline view_gantt hands to the visualizer is complete: per *)
(* core its segments are sorted by start and do not overlap, and they      *)
(* cover every dispatched interval of the run (the recorded run or the     *)
(* step-mode run) exactly once.                                            *)
C11_GanttTimelineComplete ==
    (last.op = "view_gantt" /\ status = "Gantt chart opened")
    => /\ TimelineOrdered(timeline)
       /\ \/ TimelineCovers(timeline, shown(heap, current_processes))
          \/ TimelineCovers(timeline, shown(heap, step_processes))

\* start_time and end_time of p are set and its derived fields agree.
IsFinalized(p) ==
    /\ p.start_time # None /\ p.end_time # None
    /\ p.waiting_time # None /\ p.turnaround_time # None
    /\ p.waiting_time + p.burst_time = p.turnaround_time
    /\ p.end_time >= p.start_time
    /\ p.start_time >= p.arrival_time

(* C12: every process in the result of a completed run_simulation, which  *)
(* is displayed and used for the metrics, has start_time and end_time set, *)
(* waiting_time + burst_time = turnaround_time and                         *)
(* end_time >= start_time >= arrival_time.                                 *)
C12_CompletedResultFinalized ==
    (last.op = "run_simulation" /\ last.outcome = "ok"
     /\ status = "Simulation completed")
    => \A i \in DOMAIN current_processes :
           IsFinalized(Deref(heap, current_processes[i]))

(* C13: no state leaks between custom-algorithm runs: a custom run that    *)
(* returns reports what its source gives on this process list in a fresh   *)
(* execution context, whatever custom code was validated or run before.    *)
C13_CustomRunsIsolated ==
    (last.op \in SimulationOps /\ last.algo = "Custom"
     /\ last.scheduler # "none")
    => current_algo_name = custom_algo_name(last.scheduler, {})

\* A run_simulation of algorithm algo on cores cores has just completed on
\* the session's list.
Completed(algo, cores) ==
    /\ last.op = "run_simulation" /\ last.outcome = "ok"
    /\ last.algo = algo /\ last.cores = cores

\* The place in the session's list of the process segment k ran.
place_of(k) ==
    CHOOSE i \in DOMAIN processes : heap[processes[i]].pid = timeline[k].pid

FcfsExample ==
    <<Process("P1", 0, 5, 1), Process("P2", 1, 3, 2), Process("P3", 2, 8, 1)>>

(* C14: FCFS on one core dispatches the processes in ascending             *)
(* arrival_time, ties in input order, each once and to completion, the     *)
(* core never idle while a process is ready; P1(0,5), P2(1,3), P3(2,8)     *)
(* give P1 [0,5], P2 [5,8], P3 [8,16].  The timeline is a function of the  *)
(* list, so every run on the same list gives the same order.               *)
C14_FcfsArrivalOrder ==
    Completed("FCFS", "1")
    => LET ps == ObjectsOf(heap, processes) IN
       /\ Len(timeline) = Len(ps)
       /\ \A k \in DOMAIN timeline :
              /\ \E i \in DOMAIN ps : ps[i].pid = timeline[k].pid
              /\ timeline[k].end - timeline[k].start
                    = ps[place_of(k)].burst_time
              /\ timeline[k].start
                    = Max(ps[place_of(k)].arrival_time,
                          IF k = 1 THEN 0 ELSE timeline[k - 1].end)
       /\ \A k, m \in DOMAIN timeline :
              k < m =>
                 \/ ps[place_of(k)].arrival_time < ps[place_of(m)].arrival_time
                 \/ /\ ps[place_of(k)].arrival_time
                          = ps[place_of(m)].arrival_time
                    /\ place_of(k) < place_of(m)
       /\ ps = FcfsExample
             => /\ [k \in DOMAIN timeline |->
                       <<timeline[k].pid, timeline[k].start, timeline[k].end>>]
                      = << <<"P1", 0, 5>>, <<"P2", 5, 8>>, <<"P3", 8, 16>> >>
                /\ [i \in DOMAIN current_processes |->
                       <<shown(heap, current_processes)[i].start_time,
                         shown(heap, current_processes)[i].end_time>>]
                      = << <<0, 5>>, <<5, 8>>, <<8, 16>> >>

\* FCFS has run on the example list.
C14_Witness ==
    /\ Completed("FCFS", "1")
    /\ ObjectsOf(heap, processes) = FcfsExample
    /\ Len(timeline) = 3

\* The segment in which the process of segment k runs next, 0 if none.
next_slice(k) ==
    IF \E m \in DOMAIN timeline : m > k /\ timeline[m].pid = timeline[k].pid
    THEN CHOOSE m \in DOMAIN timeline :
             /\ m > k /\ timeline[m].pid = timeline[k].pid
             /\ \A x \in DOMAIN timeline :
                   (x > k /\ timeline[x].pid = timeline[k].pid) => m <= x
    ELSE 0

(* C15: under Round Robin on one core no dispatch is longer than the       *)
(* quantum, and a process preempted at the end of its slice runs again     *)
(* only after every process that arrived during the slice, the tick the    *)
(* slice ends included, has had its first dispatch.                        *)
C15_RoundRobinRequeuesAfterArrivals ==
    (Completed("RR", "1") /\ IsIntText(last.quantum))
    => LET ps == ObjectsOf(heap, processes) IN
       /\ \A k \in DOMAIN timeline :
              timeline[k].end - timeline[k].start <= ParseInt(last.quantum)
       /\ \A k \in DOMAIN timeline :
              next_slice(k) # 0 =>
                 \A j \in DOMAIN ps :
                    (/\ timeline[k].start < ps[j].arrival_time
                     /\ ps[j].arrival_time <= timeline[k].end)
                    => \E f \in DOMAIN timeline :
                          /\ k < f /\ f < next_slice(k)
                          /\ timeline[f].pid = ps[j].pid

\* A process was preempted at a tick at which another process arrived.
C15_Witness ==
    /\ Completed("RR", "1")
    /\ \E k \in DOMAIN timeline :
          /\ next_slice(k) # 0
          /\ \E j \in DOMAIN processes :
                heap[processes[j]].arrival_time = timeline[k].end

(* C16: for every built-in algorithm and every number of cores N >= 1 the  *)
(* segments of process i (from 0) are on core i mod N, and the busy ticks  *)
(* of all cores' segments add up to the sum of burst_time of the input.    *)
C16_BusyTicksConserved ==
    (last.op = "run_simulation" /\ last.outcome = "ok"
     /\ last.algo \in BuiltinAlgorithms /\ IsIntText(last.cores))
    => LET ps == ObjectsOf(heap, processes) IN
       /\ ParseInt(last.cores) >= 1
       /\ \A k \in DOMAIN timeline :
              /\ \E i \in DOMAIN ps : ps[i].pid = timeline[k].pid
              /\ timeline[k].core = (place_of(k) - 1) % ParseInt(last.cores)
       /\ SumSeq([k \in DOMAIN timeline |->
                     timeline[k].end - timeline[k].start])
             = SumSeq([i \in DOMAIN ps |-> ps[i].burst_time])

\* A run on two cores that gave segments to both.
C16_Witness ==
    /\ last.op = "run_simulation" /\ last.outcome = "ok"
    /\ last.algo \in BuiltinAlgorithms /\ last.cores = "2"
    /\ \E k, m \in DOMAIN timeline : timeline[k].core # timeline[m].core

(* C17: after any sequence of add_process, add_random_processes,           *)
(* load_config, on_drop and clear_all the pids of the session's list are   *)
(* pairwise distinct.                                                      *)
C17_PidsPairwiseDistinct ==
    \A i, j \in DOMAIN processes :
        i # j => heap[processes[i]].pid # heap[processes[j]].pid

(* C18: an add_process that is rejected (arrival < 0, burst <= 0, a field  *)
(* that is not an integer) leaves the process list and the listbox exactly *)
(* as they were.                                                           *)
C18_RejectedAddLeavesList ==
    [][(last'.op = "add_process" /\ last'.outcome # "ok")
       => UNCHANGED <<heap, processes, listbox_size, drag_index>>]_vars

\* add_process was rejected on a list that holds a process.
C18_Witness ==
    /\ last.op = "add_process" /\ last.fault = "ValueError"
    /\ status = "Error adding process"
    /\ processes # <<>>

(* C19: when run_simulation or start_step_mode ends in failure, the        *)
(* recorded result (current_processes, current_algo_name, timeline and the *)
(* step-mode state) is still that of the last successful run.              *)
C19_FailureKeepsLastResult ==
    [][(last'.op \in SimulationOps /\ last'.outcome = "caught"
        /\ status' = FailureStatus(last'.op))
       => UNCHANGED <<resultVars, stepVars>>]_vars

(* C20: whenever mlfq_scheduler is invoked it receives the three level     *)
(* quanta quantum, 2 * quantum and 4 * quantum of the quantum entered, and *)
(* for every quantum the run accepts (the run does not fail) they are      *)
(* positive and strictly increasing.                                       *)
C20_MlfqLevelQuanta ==
    (last.op \in SimulationOps /\ last.algo = "MLFQ"
     /\ IsIntText(last.quantum))
    => LET quantum == ParseInt(last.quantum)
           levels == last.received
       IN /\ levels # <<>>
                => levels = <<quantum, 2 * quantum, 4 * quantum>>
          /\ last.fault = "none"
                => /\ Len(levels) = 3
                   /\ 0 < levels[1]
                   /\ levels[1] < levels[2]
                   /\ levels[2] < levels[3]

\* MLFQ has run on the quantum 2.
C20_Witness ==
    /\ last.op \in SimulationOps /\ last.algo = "MLFQ"
    /\ last.fault = "none" /\ last.scheduler = "mlfq_scheduler"
    /\ last.received = <<2, 4, 8>>

(* C21: whenever view_gantt renders a chart, the algorithm name, the       *)
(* process set and the timeline it passes to the visualizer were assigned  *)
(* by the same simulation run.                                             *)
C21_GanttArgumentsOfOneRun ==
    (last.op = "view_gantt" /\ status = "Gantt chart opened")
    => /\ origin.current_algo_name = origin.timeline
       /\ origin.current_processes = origin.timeline

(* C22: once step mode is started on a timeline of n segments, repeated   *)
(* advance requests through the "Step Simulation" control complete it with *)
(* all n segments visible.  The handler is deterministic, so requests      *)
(* reach completion exactly if each one that finds step mode running on    *)
(* the same settings and list makes progress: it moves the cursor forward, *)
(* or completes step mode (step_mode false, status "Step mode completed",  *)
(* the whole timeline visible).                                            *)
C22_AdvanceRequestMakesProgress ==
    [][(/\ last.op = "start_step_mode" /\ last.outcome = "ok"
        /\ step_mode
        /\ last'.op = "start_step_mode" /\ last'.outcome = "ok"
        /\ last'.algo = last.algo /\ last'.quantum = last.quantum
        /\ last'.cores = last.cores /\ last'.code = last.code
        /\ processes' = processes)
       => \/ current_step' > current_step
          \/ /\ ~step_mode'
             /\ status' = "Step mode completed"
             /\ timeline' = step_timeline']_vars

====
